---- MODULE Spec2Model ----
(***************************************************************************)
(* A model of the plugin lifecycle manager of libextension (src/plugin.go):*)
(* the Manager operations Install, Uninstall, Enable, Disable, List,       *)
(* Search and Upgrade under the Manager's sync.RWMutex, the extraction     *)
(* pipeline writePluginFiles / processFile and the archive stages          *)
(* extractTar / extractZip.                                                *)
(*                                                                         *)
(* Failure model.  Every call whose error the code tests (an               *)
(* `if err != nil` branch) may fail.  Calls whose result the code discards *)
(* (the deferred os.RemoveAll of Install and Upgrade, the os.Rename that   *)
(* restores the backup, the os.RemoveAll of the backup) are taken to       *)
(* succeed.  A failed os.WriteFile or os.RemoveAll may have acted in part. *)
(* A run-time panic unwinds through the deferred calls and is reported to  *)
(* the caller as the result "panic".                                       *)
(***************************************************************************)
EXTENDS Integers, Sequences, FiniteSets, TLC

VARIABLES
    fs,     \* the file tree: a set of nodes [path, dir, data]
    mu,     \* Manager.mu, the sync.RWMutex
    proc,   \* one record per caller (goroutine): operation, position, locals
    ex,     \* one run of writePluginFiles on a given content
    px,     \* one run of extractTar / extractZip over a list of entry names
    ar      \* one call of FindAsset or Filter on a list of asset names

vars == <<fs, mu, proc, ex, px, ar>>

(***************************************************************************)
(* Strings as sequences of characters, and the path functions of           *)
(* path/filepath that the archive stages call.                             *)
(***************************************************************************)
Sep == "/"

\* strings.HasPrefix(s, prefix)
HasPrefix(s, prefix) ==
    /\ Len(s) >= Len(prefix)
    /\ SubSeq(s, 1, Len(prefix)) = prefix

\* the segments of s between separators (empty segments included)
RECURSIVE SplitFrom(_, _, _)
SplitFrom(s, i, cur) ==
    IF i > Len(s) THEN <<cur>>
    ELSE IF s[i] = Sep THEN <<cur>> \o SplitFrom(s, i + 1, <<>>)
    ELSE SplitFrom(s, i + 1, Append(cur, s[i]))

Split(s) == SplitFrom(s, 1, <<>>)

RECURSIVE JoinSegs(_)
JoinSegs(segs) ==
    IF Len(segs) = 0 THEN <<>>
    ELSE IF Len(segs) = 1 THEN segs[1]
    ELSE segs[1] \o <<Sep>> \o JoinSegs(Tail(segs))

DotDot == <<".", ".">>
Dot == <<".">>

IsRooted(s) == Len(s) > 0 /\ s[1] = Sep

\* the lexical processing of filepath.Clean: drop empty and "." segments,
\* let ".." remove the segment before it, keep a leading ".." of a relative
\* path and drop it at the root
RECURSIVE CleanSegs(_, _, _)
CleanSegs(segs, out, rooted) ==
    IF Len(segs) = 0 THEN out
    ELSE LET h == Head(segs)
             t == Tail(segs)
         IN  IF h = <<>> \/ h = Dot THEN CleanSegs(t, out, rooted)
             ELSE IF h = DotDot
                  THEN IF Len(out) > 0 /\ out[Len(out)] # DotDot
                       THEN CleanSegs(t, SubSeq(out, 1, Len(out) - 1), rooted)
                       ELSE IF rooted THEN CleanSegs(t, out, rooted)
                       ELSE CleanSegs(t, Append(out, h), rooted)
             ELSE CleanSegs(t, Append(out, h), rooted)

\* filepath.Clean(path)
Clean(s) ==
    LET rooted == IsRooted(s)
        body == JoinSegs(CleanSegs(Split(s), <<>>, rooted))
    IN  IF rooted THEN <<Sep>> \o body
        ELSE IF body = <<>> THEN Dot
        ELSE body

\* filepath.Join(a, b) for non-empty a and b
Join(a, b) == Clean(a \o <<Sep>> \o b)

\* filepath.Dir(path) of a clean path
DirOf(s) ==
    LET segs == Split(s)
    IN  Clean(JoinSegs(SubSeq(segs, 1, Len(segs) - 1)) \o <<Sep>>)

\* path p is destDir itself or lies below it
Inside(p, destDir) == p = destDir \/ HasPrefix(p, destDir \o <<Sep>>)

\* every directory on the way to path p, p included (what os.MkdirAll(p) makes
\* sure exists), the root excluded
DirsTo(p) ==
    LET segs == Split(p)
    IN  { JoinSegs(SubSeq(segs, 1, k)) : k \in 2..Len(segs) }

(***************************************************************************)
(* Archive stages: extractTar (plugin.go 705-750) and extractZip           *)
(* (plugin.go 752-821).  An archive entry is [name, type, data] with type  *)
(* "dir", "file" or "other" (a tar entry that is neither TypeDir nor       *)
(* TypeReg).  A node of the file tree is [path, dir, data]; the data of a  *)
(* file is a record: a content value (below), a plugin record, or          *)
(* Truncated for a file whose write did not complete.                      *)
(***************************************************************************)
NoData == [k |-> "dir"]
Truncated == [k |-> "truncated"]
Raw(bytes) == [k |-> "raw", bytes |-> bytes]

DirNode(p) == [path |-> p, dir |-> TRUE, data |-> NoData]
FileNode(p, d) == [path |-> p, dir |-> FALSE, data |-> d]

\* the path the stage writes an entry to
EntryTarget(destDir, name) == Join(destDir, Clean(name))

\* the stage's path check: strings.HasPrefix(target, destDir)
PathAccepted(target, destDir) == HasPrefix(target, destDir)

EntryFaults == {"none", "mkdir", "open", "copy"}

\* the directories os.MkdirAll(path) makes sure exist
DirNodes(path) == { DirNode(d) : d \in DirsTo(path) }

\* what one iteration of the entry loop does with entry e once its target,
\* the outcome of the path check, the directories of a directory entry
\* (dirs) and those of a file entry (parents) are known
EntryWrite(kind, e, fault, target, accepted, dirs, parents) ==
    IF ~accepted
    THEN [err |-> "PathTraversal", made |-> {}]
    ELSE IF e.type = "dir"
    THEN IF fault = "mkdir"
         THEN [err |-> "IOError", made |-> {}]
         ELSE [err |-> "nil", made |-> dirs]
    ELSE IF e.type = "other" /\ kind = "tar"
    THEN [err |-> "nil", made |-> {}]
    ELSE CASE fault = "mkdir" -> [err |-> "IOError", made |-> {}]
           [] fault = "open"  -> [err |-> "IOError", made |-> parents]
           [] fault = "copy"  ->
                [err |-> "IOError", made |-> parents \cup {FileNode(target, Truncated)}]
           [] OTHER ->
                [err |-> "nil", made |-> parents \cup {FileNode(target, e.data)}]

EntryAt(kind, destDir, e, fault, target) ==
    EntryWrite(kind, e, fault, target, PathAccepted(target, destDir),
               DirNodes(target), DirNodes(DirOf(target)))

\* one iteration of the entry loop: the error it returns ("nil" to go on)
\* and the nodes it has made by then
EntryStep(kind, destDir, e, fault) ==
    EntryAt(kind, destDir, e, fault, EntryTarget(destDir, e.name))

\* a file tree after the nodes of `made` are written over it
Overlay(nodes, made) ==
    { n \in nodes : \A m \in made : m.path # n.path } \cup made

(***************************************************************************)
(* One run of an archive stage, entry by entry.  The entries come from the *)
(* archive being read: names made of "..", and ordinary segments.          *)
(***************************************************************************)
MaxSegs == 3
MaxEntries == 2

NameSegs == { DotDot, <<"a">>, <<"a", "b">> }

RECURSIVE SegSeqs(_)
SegSeqs(n) ==
    IF n = 0 THEN {<<>>}
    ELSE LET shorter == SegSeqs(n - 1)
         IN  shorter \cup { Append(q, g) : q \in { r \in shorter : Len(r) = n - 1 }, g \in NameSegs }

EntryNames == { JoinSegs(q) : q \in SegSeqs(MaxSegs) \ {<<>>} }

DestDirs == { <<Sep, "r", Sep, "a">>, <<Sep, "r", Sep, "a", Sep, "x">> }

PxIdle == [kind |-> "none", destDir |-> <<>>, nodes |-> {}, n |-> 0,
           last |-> <<>>, res |-> "idle"]

\* the stage is entered with a destination directory that exists
ArchiveStart ==
    /\ px.res = "idle"
    /\ \E k \in {"tar", "zip"}, d \in DestDirs :
          px' = [kind |-> k, destDir |-> d, nodes |-> {}, n |-> 0,
                 last |-> <<>>, res |-> "running"]
    /\ UNCHANGED <<fs, mu, proc, ex, ar>>

\* the run after an entry written to target with outcome r
PxAfter(run, target, r) ==
    [run EXCEPT !.nodes = Overlay(@, r.made),
                !.n = @ + 1,
                !.last = target,
                !.res = IF r.err = "nil" THEN "running" ELSE r.err]

\* the loop body on the next entry of the archive
ArchiveEntry ==
    /\ px.res = "running"
    /\ px.n < MaxEntries
    /\ \E nm \in EntryNames, ty \in {"dir", "file", "other"}, f \in EntryFaults :
          px' = PxAfter(px, EntryTarget(px.destDir, nm),
                        EntryStep(px.kind, px.destDir,
                                  [name |-> nm, type |-> ty, data |-> Raw(<<1>>)], f))
    /\ UNCHANGED <<fs, mu, proc, ex, ar>>

\* io.EOF from tr.Next(), or the end of zipReader.File
ArchiveEnd ==
    /\ px.res = "running"
    /\ px' = [px EXCEPT !.res = "done"]
    /\ UNCHANGED <<fs, mu, proc, ex, ar>>

InitPath ==
    /\ px = PxIdle
    /\ fs = <<>> /\ mu = <<>> /\ proc = <<>> /\ ex = <<>> /\ ar = <<>>

NextPath == ArchiveStart \/ ArchiveEntry \/ ArchiveEnd

SpecPath == InitPath /\ [][NextPath]_vars

\* nodes the stage made that did not exist before it ran
PxCreated == { n.path : n \in px.nodes } \ DirsTo(px.destDir)

\* C3: the untar and unzip stages create nothing outside destinationDir, and
\* an entry that resolves outside destinationDir ends the extraction with
\* PathTraversal
C3_PathContained ==
    /\ \A p \in PxCreated : Inside(p, px.destDir)
    /\ (px.n > 0 /\ ~Inside(px.last, px.destDir)) => px.res = "PathTraversal"

(***************************************************************************)
(* Content values.  The payload a catalog hands over is a content value:   *)
(* Raw(bytes), an archive Tar(entries) or Zip(entries), or Comp(fmt, inner)*)
(* for inner compressed as fmt (gzip, xz, bzip2, lz4, brotli).  Info.Content*)
(* holds it as a string, a []byte, an io.Reader (kind "reader"), an        *)
(* io.Reader that is also an io.Seeker (kind "seeker"), or a value of      *)
(* another Go type (kind "other").                                         *)
(***************************************************************************)
Tar(entries) == [k |-> "tar", entries |-> entries]
Zip(entries) == [k |-> "zip", entries |-> entries]
Comp(fmt, inner) == [k |-> fmt, inner |-> inner]
Corrupt == [k |-> "corrupt"]

SniffBufLen == 512

Min(a, b) == IF a < b THEN a ELSE b

\* the length in bytes of a content value; a packed value is taken to be
\* longer than the sniff buffer
Size(b) == IF b.k = "raw" THEN Len(b.bytes) ELSE SniffBufLen + 1

\* a sniffer that sees gzip in everything
AlwaysGzip(b, n) == "application/x-gzip"

\* http.DetectContentType on the first n bytes of b: the signatures net/http
\* knows among the formats of this model are gzip (3 bytes) and zip (4 bytes)
DetectContentType(b, n) ==
    IF b.k = "gzip" /\ n >= 3 THEN "application/x-gzip"
    ELSE IF b.k = "zip" /\ n >= 4 THEN "application/zip"
    ELSE "application/octet-stream"

\* a table that runs the unpacking before the decompression
UntarFirst(ct) ==
    IF ct = "application/zip" THEN <<"extractZip">>
    ELSE IF ct = "application/x-gzip" THEN <<"extractTar", "extractGz">>
    ELSE <<>>

\* fileProcessorMap: content type -> stages (<<>> for a type that is no key)
fileProcessorMap(ct) ==
    CASE ct = "application/gzip"     -> <<"extractGz", "extractTar">>
      [] ct = "application/x-gzip"   -> <<"extractGz", "extractTar">>
      [] ct = "application/zip"      -> <<"extractZip">>
      [] ct = "application/x-xz"     -> <<"extractXz", "extractTar">>
      [] ct = "application/x-bzip2"  -> <<"extractBzip2", "extractTar">>
      [] ct = "application/x-lz4"    -> <<"extractLz4", "extractTar">>
      [] ct = "application/x-brotli" -> <<"extractBrotli", "extractTar">>
      [] OTHER -> <<>>

\* A stream is [b, pre, pos]: the first pre bytes of b followed by b from
\* offset pos on.  It delivers b itself when pre = pos.
Stream(b, pre, pos) == [b |-> b, pre |-> pre, pos |-> pos]
Whole(st) == st.pre = st.pos
StreamData(st) ==
    IF Whole(st) THEN st.b
    ELSE [k |-> "damaged", of |-> st.b, pre |-> st.pre, pos |-> st.pos]

\* the stream left after sniffing n bytes, the sniffed bytes not put back
Unprepended(kind, b, n) == [b |-> b, pre |-> 0, pos |-> IF kind = "reader" THEN n ELSE 0]

\* the stream writePluginFiles hands on after sniffing n bytes (611-652)
Normalized(kind, b, n) ==
    IF kind = "reader" THEN Stream(b, n, n) ELSE Stream(b, 0, 0)

StageResult(err, term, out, tree) ==
    [err |-> err, term |-> term, out |-> out, tree |-> tree]

\* the entry loop of extractTar / extractZip from entry i on; env.efault
\* strikes at entry env.eidx.  EntriesAfter goes on after the iteration on
\* entry i has had outcome r.
RECURSIVE ExtractEntries(_, _, _, _, _, _)
EntriesAfter(kind, destDir, entries, i, env, tree, r) ==
    IF r.err # "nil"
    THEN [err |-> r.err, tree |-> Overlay(tree, r.made)]
    ELSE ExtractEntries(kind, destDir, entries, i + 1, env, Overlay(tree, r.made))

ExtractEntries(kind, destDir, entries, i, env, tree) ==
    IF i > Len(entries) THEN [err |-> "nil", tree |-> tree]
    ELSE EntriesAfter(kind, destDir, entries, i, env, tree,
                      EntryStep(kind, destDir, entries[i],
                                IF env.eidx = i THEN env.efault ELSE "none"))

\* an archive stage whose entry loop ended with r returns (nil, nil) or
\* (nil, err)
Unpacked(st, r) == StageResult(r.err, r.err = "nil", st, r.tree)

\* a decompressor that reads its header when it is made (gzip, xz)
EagerDecompress(fmt, st, tree) ==
    IF Whole(st) /\ st.b.k = fmt /\ st.b.inner # Corrupt
    THEN StageResult("nil", FALSE, Stream(st.b.inner, 0, 0), tree)
    ELSE StageResult("BadHeader", FALSE, st, tree)

\* a decompressor that fails only when it is read (bzip2, lz4, brotli)
LazyDecompress(fmt, st, tree) ==
    IF Whole(st) /\ st.b.k = fmt
    THEN StageResult("nil", FALSE, Stream(st.b.inner, 0, 0), tree)
    ELSE StageResult("nil", FALSE, Stream(Corrupt, 0, 0), tree)

\* extractTar: tr.Next() gives io.EOF on an empty stream, a header error on
\* input that is no tar archive; the stage returns (nil, nil) at the end
extractTar(st, destDir, env, tree) ==
    IF Whole(st) /\ st.b.k = "tar"
    THEN Unpacked(st, ExtractEntries("tar", destDir, st.b.entries, 1, env, tree))
    ELSE IF Whole(st) /\ st.b = Raw(<<>>)
    THEN StageResult("nil", TRUE, st, tree)
    ELSE StageResult("TarHeader", FALSE, st, tree)

\* extractZip: copy to a temporary file, open it as a zip archive, unpack
extractZip(st, destDir, env, tree) ==
    IF env.fault = "tmpfile" \/ st.b = Corrupt
    THEN StageResult("IOError", FALSE, st, tree)
    ELSE IF Whole(st) /\ st.b.k = "zip"
    THEN Unpacked(st, ExtractEntries("zip", destDir, st.b.entries, 1, env, tree))
    ELSE StageResult("ZipFormat", FALSE, st, tree)

RunStage(stage, st, destDir, env, tree) ==
    CASE stage = "extractGz"     -> EagerDecompress("gzip", st, tree)
      [] stage = "extractXz"     -> EagerDecompress("xz", st, tree)
      [] stage = "extractBzip2"  -> LazyDecompress("bzip2", st, tree)
      [] stage = "extractLz4"    -> LazyDecompress("lz4", st, tree)
      [] stage = "extractBrotli" -> LazyDecompress("brotli", st, tree)
      [] stage = "extractTar"    -> extractTar(st, destDir, env, tree)
      [] stage = "extractZip"    -> extractZip(st, destDir, env, tree)

\* ctx.Err() # nil at the check before stage k: the context is cancelled
\* from check env.cancelAt on (0: never)
CtxErrAt(env, k) == env.cancelAt # 0 /\ env.cancelAt <= k

\* processFile from stage k on: term is "the reader returned is nil".
\* StageDone goes on after stage k has returned r.
RECURSIVE processFile(_, _, _, _, _, _)
StageDone(stages, k, destDir, env, r) ==
    IF r.err # "nil" THEN r
    ELSE IF r.term THEN r
    ELSE processFile(stages, k + 1, r.out, destDir, env, r.tree)

processFile(stages, k, st, destDir, env, tree) ==
    IF k > Len(stages) THEN StageResult("nil", FALSE, st, tree)
    ELSE IF CtxErrAt(env, k) THEN StageResult("Cancelled", FALSE, st, tree)
    ELSE StageDone(stages, k, destDir, env, RunStage(stages[k], st, destDir, env, tree))

\* the final io.Copy(binFile, reader) of writePluginFiles (676-691): a nil
\* reader is dereferenced, which panics
FinalCopy(r, binPath, env) ==
    IF r.term THEN [err |-> "panic", tree |-> r.tree]
    ELSE IF r.out.b = Corrupt \/ env.fault = "copy"
    THEN [err |-> "IOError", tree |-> Overlay(r.tree, {FileNode(binPath, Truncated)})]
    ELSE [err |-> "nil", tree |-> Overlay(r.tree, {FileNode(binPath, StreamData(r.out))})]

\* what follows processFile returning r (681-691)
Piped(r, binPath, env) ==
    IF r.err # "nil" THEN [err |-> r.err, tree |-> r.tree]
    ELSE FinalCopy(r, binPath, env)

\* os.OpenFile(path, O_CREATE|O_WRONLY): an existing file is kept as it is
CreateFile(tree, path) ==
    IF \E n \in tree : n.path = path THEN tree
    ELSE tree \cup {FileNode(path, Raw(<<>>))}

IsDirAt(tree, path) == \E n \in tree : n.path = path /\ n.dir

MkdirAll(tree, path) ==
    tree \cup { DirNode(d) : d \in { q \in DirsTo(path) : \A n \in tree : n.path # q } }

\* the number of bytes sniffed (604-639)
SniffLen(info, env) ==
    IF info.kind \in {"reader", "seeker"}
    THEN Min(env.sniffN, Min(SniffBufLen, Size(info.content)))
    ELSE Min(SniffBufLen, Size(info.content))

\* writePluginFiles from the opening of the executable file on (654-691):
\* t2 is the tree with that file, st the normalised stream
WriteContent(t2, plugindir, binPath, st, processors, env) ==
    IF Len(processors) = 0
    THEN FinalCopy(StageResult("nil", FALSE, st, t2), binPath, env)
    ELSE Piped(processFile(processors, 1, st, plugindir, env, t2), binPath, env)

\* writePluginFiles after os.MkdirAll(plugindir) has given tree t1 (601-691)
WriteSniffed(tree, t1, plugindir, binPath, info, env, n) ==
    IF env.fault = "mkdir" THEN [err |-> "IOError", tree |-> tree]
    ELSE IF info.kind = "other" THEN [err |-> "Unsupported", tree |-> t1]
    ELSE IF info.kind \in {"reader", "seeker"} /\ env.fault = "read"
    THEN [err |-> "IOError", tree |-> t1]
    ELSE IF info.kind = "seeker" /\ env.fault = "seek"
    THEN [err |-> "IOError", tree |-> t1]
    ELSE IF env.fault = "open" \/ IsDirAt(t1, binPath)
    THEN [err |-> "IOError", tree |-> t1]
    ELSE WriteContent(CreateFile(t1, binPath), plugindir, binPath,
                      Normalized(info.kind, info.content, n),
                      fileProcessorMap(DetectContentType(info.content, n)), env)

WriteInto(tree, plugindir, info, env) ==
    WriteSniffed(tree, MkdirAll(tree, plugindir), plugindir,
                 Join(plugindir, info.fileName), info, env, SniffLen(info, env))

\* writePluginFiles(ctx, dir, info) on the file tree `tree` (592-692).
\* env: fault (the call that fails), sniffN (bytes the sniffing Read
\* returns), cancelAt, efault and eidx (see above).
writePluginFiles(tree, dir, info, env) ==
    WriteInto(tree, Join(dir, info.name), info, env)

(***************************************************************************)
(* One run of writePluginFiles on a content value packed from a known file.*)
(***************************************************************************)
MaxBytes == 2

RECURSIVE Upto(_)
Upto(n) == IF n = 0 THEN <<>> ELSE Append(Upto(n - 1), n)

\* the file contents tried: <<>>, <<1>>, <<1, 2>>, ...
FileData == { Raw(Upto(n)) : n \in 0..MaxBytes }

ToolName == <<"t">>
BinName == <<"b", "i", "n">>
EntryName == <<"f">>
ExDir == <<Sep, "r", Sep, "a">>

FileEntry(d) == [name |-> EntryName, type |-> "file", data |-> d]

Compressors == {"gzip", "xz", "bzip2", "lz4", "brotli"}

\* the ways a file's content d is packed
PackTarGz(d) == Comp("gzip", Tar(<<FileEntry(d)>>))
PackZip(d) == Zip(<<FileEntry(d)>>)
PackTarXz(d) == Comp("xz", Tar(<<FileEntry(d)>>))

\* a gzip stream that has the magic bytes and no valid header after them
BadGzip == Comp("gzip", Corrupt)

Packings(d) ==
    {d, PackZip(d)}
        \cup { Comp(c, Tar(<<FileEntry(d)>>)) : c \in Compressors }
        \cup { Comp(c, d) : c \in Compressors }

ContentKinds == {"string", "bytes", "reader", "seeker", "other"}

WriteFaults == {"none", "mkdir", "read", "seek", "open", "copy", "tmpfile"}

SniffReads == {0, 2, SniffBufLen}

Envs ==
    [fault : WriteFaults, sniffN : SniffReads, cancelAt : 0..2,
     efault : EntryFaults, eidx : {1}]

\* an environment in which no call fails and the context stays live
Calm(env) == env.fault = "none" /\ env.efault = "none" /\ env.cancelAt = 0

ExIdle == [st |-> "idle", orig |-> Raw(<<>>), info |-> <<>>, env |-> <<>>,
           err |-> "", tree |-> {}]

\* a caller packs a file and hands the payload over in one of the Go types
ExtractCall ==
    /\ ex.st = "idle"
    /\ \E d \in FileData, kind \in ContentKinds :
         \E c \in Packings(d) \cup {BadGzip} :
            ex' = [ex EXCEPT !.st = "called", !.orig = d,
                             !.info = [name |-> ToolName, fileName |-> BinName,
                                       kind |-> kind, content |-> c],
                             !.tree = MkdirAll({}, ExDir)]
    /\ UNCHANGED <<fs, mu, proc, px, ar>>

\* the run after writePluginFiles has returned r
ExAfter(run, env, r) ==
    [run EXCEPT !.st = "done", !.env = env, !.err = r.err, !.tree = r.tree]

ExtractRun ==
    /\ ex.st = "called"
    /\ \E env \in Envs :
          ex' = ExAfter(ex, env, writePluginFiles(ex.tree, ExDir, ex.info, env))
    /\ UNCHANGED <<fs, mu, proc, px, ar>>

InitExtract ==
    /\ ex = ExIdle
    /\ fs = <<>> /\ mu = <<>> /\ proc = <<>> /\ px = <<>> /\ ar = <<>>

NextExtract == ExtractCall \/ ExtractRun

SpecExtract == InitExtract /\ [][NextExtract]_vars

\* the files below the destination directory that hold exactly content d
ExFilesWith(d) ==
    { n \in ex.tree : ~n.dir /\ Inside(n.path, ExDir) /\ n.data = d }

\* C10: a file packed as gzip+tar, zip or xz+tar and handed over as bytes or
\* as a stream is extracted successfully and byte-identically
C10_RoundTrip ==
    (/\ ex.st = "done"
     /\ Calm(ex.env)
     /\ ex.info.kind \in {"bytes", "reader", "seeker"}
     /\ ex.info.content \in {PackTarGz(ex.orig), PackZip(ex.orig), PackTarXz(ex.orig)})
    => (ex.err = "nil" /\ ExFilesWith(ex.orig) # {})

(***************************************************************************)
(* The plugin root on disk and the os calls the Manager makes on it.       *)
(***************************************************************************)
RootDir == <<Sep, "r">>
MetadataName == <<"m", "e", "t", "a", "d", "a", "t", "a", ".", "j", "s", "o", "n">>
UpgradeSuffix == <<".", "u", "p", "g", "r", "a", "d", "e">>
BackupSuffix == <<".", "b", "a", "c", "k", "u", "p">>

PluginNames == { <<"a">> }

MaxVersion == 2
Versions == 1..MaxVersion

\* staging in the live directory itself
InPlace(name) == Join(RootDir, name)

\* filepath.Join(m.pluginDir, name) and the paths derived from it
PluginDir(name) == Join(RootDir, name)
MetadataPath(dir) == Join(dir, MetadataName)
TmpDir(name) == Join(RootDir, name) \o UpgradeSuffix
BackupDir(name) == PluginDir(name) \o BackupSuffix

\* a Stat that finds every path
Present(tree, path) == TRUE

\* a Stat that finds no path
Missing(tree, path) == FALSE

\* os.Stat(path) succeeds
Exists(tree, path) == \E n \in tree : n.path = path

\* nothing is removed
KeepAll(tree, path) == tree

\* os.RemoveAll(path), complete
RemoveAll(tree, path) == { n \in tree : ~Inside(n.path, path) }

\* os.RemoveAll(path) that could not remove node s: s and the directories
\* above it stay
RemoveAllBut(tree, path, s) ==
    { n \in tree : ~Inside(n.path, path) \/ Inside(s.path, n.path) }

\* a rename that moves nothing
Stay(tree, src, dst) == tree

\* os.Rename(src, dst) of a directory is possible: src exists and dst is
\* absent or an empty directory
RenameOK(tree, src, dst) ==
    /\ Exists(tree, src)
    /\ \A n \in tree : Inside(n.path, dst) => n.path = dst

Rename(tree, src, dst) ==
    { n \in tree : ~Inside(n.path, src) /\ n.path # dst }
        \cup { [n EXCEPT !.path = dst \o SubSeq(n.path, Len(src) + 1, Len(n.path))] :
                 n \in { m \in tree : Inside(m.path, src) } }

\* no renaming back
NoRestore(tree, bak, dir) == tree

\* the backup is renamed back after a failed swap (555-557); the result of
\* the call is not looked at
Restore(tree, bak, dir) ==
    IF RenameOK(tree, bak, dir) THEN Rename(tree, bak, dir) ELSE tree

\* the data of the file at path (NoData when there is no such file)
ReadFile(tree, path) ==
    IF \E n \in tree : n.path = path /\ ~n.dir
    THEN (CHOOSE n \in tree : n.path = path /\ ~n.dir).data
    ELSE NoData

WriteFile(tree, path, data) == Overlay(tree, {FileNode(path, data)})

\* a record that is enabled whatever the status given
Reenabled(name, version, status, meta) ==
    [k |-> "rec", name |-> name, version |-> version, status |-> "enabled", meta |-> meta]

\* a record without stamp
Unstamped(name, version, status, meta) ==
    [k |-> "rec", name |-> name, version |-> 0, status |-> "", meta |-> {}]

\* the plugin record kept in metadata.json
Rec(name, version, status, meta) ==
    [k |-> "rec", name |-> name, version |-> version, status |-> status, meta |-> meta]

\* a root whose entries are never seen
NoDirs(tree) == {}

\* the subdirectories of the plugin root (os.ReadDir and entry.IsDir)
SubDirs(tree) == { n.path : n \in { m \in tree : m.dir /\ m.path # RootDir /\ DirOf(m.path) = RootDir } }

\* the body of List (408-443): fault "readdir" or "readfile" makes that
\* call fail
ListResult(tree, fault) ==
    LET dirs == SubDirs(tree)
        files == { d \in dirs : ReadFile(tree, MetadataPath(d)) # NoData }
    IN  IF ~Exists(tree, RootDir) THEN [err |-> "nil", out |-> {}]
        ELSE IF fault = "readdir" THEN [err |-> "IOError", out |-> {}]
        ELSE IF fault = "readfile" /\ files # {} THEN [err |-> "IOError", out |-> {}]
        ELSE IF \E d \in files : ReadFile(tree, MetadataPath(d)).k # "rec"
        THEN [err |-> "ParseError", out |-> {}]
        ELSE [err |-> "nil",
              out |-> { [dir |-> d, rec |-> ReadFile(tree, MetadataPath(d))] : d \in files }]

(***************************************************************************)
(* Manager.mu, a sync.RWMutex.  w is the caller that holds the writer side *)
(* (from the moment Lock announces itself), held says it has got past the  *)
(* readers, readers counts the read locks held.                            *)
(***************************************************************************)
Procs == {"p1", "p2"}
NoProc == "none"

\* a lock that lets everybody through
Open(m) == TRUE

\* Lock can announce itself: no other writer is waiting or inside
CanLock(m) == m.w = NoProc

\* RLock goes through unless a writer is waiting or inside
CanRLock(m) == m.w = NoProc

\* the announced writer gets the lock once the readers have left
CanEnter(m) == m.readers = 0

MuFree == [w |-> NoProc, held |-> FALSE, readers |-> 0]

(***************************************************************************)
(* Callers.                                                                *)
(***************************************************************************)
Writers == {"Install", "Uninstall", "Enable", "Disable", "Upgrade"}
Readers == {"List", "Search"}

NoInfo == [name |-> <<>>, fileName |-> <<>>, kind |-> "none", content |-> Raw(<<>>)]

\* A caller: the operation it runs with its arguments, where it stands (pc),
\* its locals (info, cur, avail), its result (res, out), and what it has done
\* so far: cancelled (its context is cancelled), atCall (it was so when the
\* call was made), pre (the tree when it got the lock), past (it got past
\* the opening checks), called (the catalog was called), late (the tree was
\* changed with the context already cancelled).
IdleProc ==
    [op |-> "none", name |-> <<>>, version |-> 0, pc |-> "idle",
     cancelled |-> FALSE, atCall |-> FALSE, res |-> "", info |-> NoInfo,
     cur |-> NoData, avail |-> {}, out |-> {}, pre |-> {}, past |-> FALSE,
     called |-> FALSE, late |-> FALSE]

\* a context that is never seen as cancelled
NeverErr(me) == FALSE

\* ctx.Err() != nil at the head of an operation
CtxErr(me) == me.cancelled

\* The Manager has one caller.  With one caller the catalog hands the
\* release over as bytes or as a stream and a failing Uninstall, Enable or
\* Disable may have acted in part; with two callers the release comes as
\* bytes and these three fail without effect.
Solo == Cardinality(DOMAIN proc) = 1

\* what the catalog's Fetch(name, version) may return: the release as a raw
\* executable or as a gzipped tar archive, in a []byte or an io.Reader
StoreInfos(name, version) ==
    { [name |-> name, fileName |-> BinName, kind |-> kd, content |-> c] :
        kd \in (IF Solo THEN {"bytes", "reader"} ELSE {"bytes"}),
        c \in {Raw(<<version>>), PackTarGz(Raw(<<version>>))} }

MaxResults == 1

CatalogEntries == [name : PluginNames, meta : BOOLEAN]

\* what the catalog's Search may return
SearchResults == { A \in SUBSET CatalogEntries : Cardinality(A) <= MaxResults }

\* the environment of a writePluginFiles call made with ctx cancelled or not
\* of these, the ones that make a difference to the payload
LifeEnvs(cancelled, info) ==
    { e \in Envs :
        /\ e.cancelAt = (IF cancelled THEN 1 ELSE 0)
        /\ (info.kind # "reader" => e.sniffN = SniffBufLen /\ e.fault # "read")
        /\ e.fault \notin {"seek", "tmpfile"}
        /\ (info.content.k = "raw" => e.efault = "none") }

Set(p, new) == proc' = [proc EXCEPT ![p] = new]

\* a caller starts an operation
Call(p) ==
    /\ proc[p].pc = "idle"
    /\ \E op \in Writers \cup Readers, nm \in PluginNames, v \in Versions, c \in BOOLEAN :
          Set(p, [IdleProc EXCEPT
                    !.op = op,
                    !.name = IF op \in Readers THEN <<>> ELSE nm,
                    !.version = IF op \in {"Install", "Upgrade"} THEN v ELSE 0,
                    !.cancelled = c, !.atCall = c, !.pc = "lock"])
    /\ UNCHANGED <<fs, mu, ex, px, ar>>

\* m.mu.Lock(), first half: the writer announces itself
Lock(p) ==
    /\ proc[p].pc = "lock"
    /\ proc[p].op \in Writers
    /\ CanLock(mu)
    /\ mu' = [mu EXCEPT !.w = p]
    /\ Set(p, [proc[p] EXCEPT !.pc = "wait"])
    /\ UNCHANGED <<fs, ex, px, ar>>

\* m.mu.Lock(), second half: the readers have left
LockEnter(p) ==
    /\ proc[p].pc = "wait"
    /\ CanEnter(mu)
    /\ mu' = [mu EXCEPT !.held = TRUE]
    /\ Set(p, [proc[p] EXCEPT !.pc = "body", !.pre = fs])
    /\ UNCHANGED <<fs, ex, px, ar>>

\* m.mu.RLock() of List and Search
RLock(p) ==
    /\ proc[p].pc = "lock"
    /\ proc[p].op \in Readers
    /\ CanRLock(mu)
    /\ mu' = [mu EXCEPT !.readers = @ + 1]
    /\ Set(p, [proc[p] EXCEPT !.pc = "body", !.pre = fs])
    /\ UNCHANGED <<fs, ex, px, ar>>

\* the caller's context is cancelled while the operation runs
Cancel(p) ==
    /\ proc[p].pc \notin {"idle", "lock", "wait", "ret", "i_cleanup", "u_drop", "u_cleanup"}
    /\ ~proc[p].cancelled
    /\ Set(p, [proc[p] EXCEPT !.cancelled = TRUE])
    /\ UNCHANGED <<fs, mu, ex, px, ar>>

\* the deferred Unlock / RUnlock; the caller has its result
Return(p) ==
    /\ proc[p].pc = "ret"
    /\ mu' = IF proc[p].op \in Writers
             THEN [mu EXCEPT !.w = NoProc, !.held = FALSE]
             ELSE [mu EXCEPT !.readers = @ - 1]
    /\ Set(p, IdleProc)
    /\ UNCHANGED <<fs, ex, px, ar>>

\* writePluginFiles has returned r: the caller goes on at pc next, or at
\* pc fail with the error
Wrote(p, r, next, fail) ==
    /\ fs' = r.tree
    /\ Set(p, [proc[p] EXCEPT !.late = @ \/ (proc[p].cancelled /\ r.tree # fs),
                              !.res = IF r.err = "nil" THEN "" ELSE r.err,
                              !.pc = IF r.err = "nil" THEN next ELSE fail])

Finish(p, res) == Set(p, [proc[p] EXCEPT !.res = res, !.pc = "ret"])

(***************************************************************************)
(* Install (221-300).                                                      *)
(***************************************************************************)
\* the context check and the already-installed check; no cleanup is
\* deferred yet
InstallCheck(p) ==
    LET me == proc[p] IN
    /\ me.pc = "body" /\ me.op = "Install"
    /\ IF CtxErr(me) THEN Finish(p, "Cancelled")
       ELSE IF Exists(fs, PluginDir(me.name)) THEN Finish(p, "AlreadyInstalled")
       ELSE Set(p, [me EXCEPT !.pc = "i_mkdir", !.past = TRUE])
    /\ UNCHANGED <<fs, mu, ex, px, ar>>

\* os.MkdirAll(pluginDir)
InstallMkdir(p) ==
    LET me == proc[p] IN
    /\ me.pc = "i_mkdir"
    /\ \E ok \in BOOLEAN :
          IF ok
          THEN /\ fs' = MkdirAll(fs, PluginDir(me.name))
               /\ Set(p, [me EXCEPT !.pc = "i_fetch", !.late = @ \/ me.cancelled])
          ELSE /\ fs' = fs
               /\ Set(p, [me EXCEPT !.res = "IOError", !.pc = "i_cleanup"])
    /\ UNCHANGED <<mu, ex, px, ar>>

\* m.store.Fetch(ctx, name, version)
InstallFetch(p) ==
    LET me == proc[p] IN
    /\ me.pc = "i_fetch"
    /\ \/ Set(p, [me EXCEPT !.res = "FetchError", !.called = TRUE, !.pc = "i_cleanup"])
       \/ \E i \in StoreInfos(me.name, me.version) :
             Set(p, [me EXCEPT !.info = i, !.called = TRUE, !.pc = "i_write"])
    /\ UNCHANGED <<fs, mu, ex, px, ar>>

\* writePluginFiles(ctx, pluginDir, info)
InstallWrite(p) ==
    LET me == proc[p] IN
    /\ me.pc = "i_write"
    /\ \E env \in LifeEnvs(me.cancelled, me.info) :
          Wrote(p, writePluginFiles(fs, PluginDir(me.name), me.info, env),
                "i_meta", "i_cleanup")
    /\ UNCHANGED <<mu, ex, px, ar>>

RecordFaults == {"none", "marshal", "write", "writepart"}

\* the record is stamped, marshalled and written; success is set
InstallMeta(p) ==
    LET me == proc[p]
        path == MetadataPath(PluginDir(me.name))
    IN
    /\ me.pc = "i_meta"
    /\ \E f \in RecordFaults :
          CASE f = "none" ->
                 /\ fs' = WriteFile(fs, path, Rec(me.info.name, me.version, "enabled", {"installed"}))
                 /\ Set(p, [me EXCEPT !.res = "ok", !.pc = "ret", !.late = @ \/ me.cancelled])
            [] f = "marshal" ->
                 /\ fs' = fs
                 /\ Set(p, [me EXCEPT !.res = "MarshalError", !.pc = "i_cleanup"])
            [] f = "write" ->
                 /\ fs' = fs
                 /\ Set(p, [me EXCEPT !.res = "IOError", !.pc = "i_cleanup"])
            [] f = "writepart" ->
                 /\ fs' = WriteFile(fs, path, Truncated)
                 /\ Set(p, [me EXCEPT !.res = "IOError", !.pc = "i_cleanup",
                                      !.late = @ \/ me.cancelled])
    /\ UNCHANGED <<mu, ex, px, ar>>

\* the deferred cleanup when success is false: os.RemoveAll(pluginDir)
InstallCleanup(p) ==
    LET me == proc[p] IN
    /\ me.pc = "i_cleanup"
    /\ fs' = RemoveAll(fs, PluginDir(me.name))
    /\ Set(p, [me EXCEPT !.pc = "ret"])
    /\ UNCHANGED <<mu, ex, px, ar>>

(***************************************************************************)
(* Uninstall (303-323), Enable (326-360), Disable (363-397).               *)
(***************************************************************************)
Uninstall(p) ==
    LET me == proc[p]
        dir == PluginDir(me.name)
    IN
    /\ me.pc = "body" /\ me.op = "Uninstall"
    /\ IF CtxErr(me) THEN fs' = fs /\ Finish(p, "Cancelled")
       ELSE IF ~Exists(fs, dir) THEN fs' = fs /\ Finish(p, "NotInstalled")
       ELSE \/ fs' = RemoveAll(fs, dir) /\ Finish(p, "ok")
            \/ fs' = fs /\ Finish(p, "IOError")
            \/ \E s \in { n \in fs : Inside(n.path, dir) /\ n.path # dir } :
                  /\ Solo
                  /\ fs' = RemoveAllBut(fs, dir, s) /\ Finish(p, "IOError")
    /\ UNCHANGED <<mu, ex, px, ar>>

\* Disable that enables
Enabled(op) == "enabled"

StatusOf(op) == IF op = "Enable" THEN "enabled" ELSE "disabled"

StatusFaults == {"none", "read", "marshal", "write", "writepart"}

\* Enable and Disable: read the record, set the status, write it back.  The
\* read fails with "NotInstalled" when the file is not there (the wrapped
\* error is fs.ErrNotExist) and with "ReadError" when it is there
SetStatus(p) ==
    LET me == proc[p]
        path == MetadataPath(PluginDir(me.name))
        data == ReadFile(fs, path)
    IN
    /\ me.pc = "body" /\ me.op \in {"Enable", "Disable"}
    /\ IF CtxErr(me) THEN fs' = fs /\ Finish(p, "Cancelled")
       ELSE \E f \in (IF Solo THEN StatusFaults ELSE StatusFaults \ {"writepart"}) :
          IF data = NoData THEN fs' = fs /\ Finish(p, "NotInstalled")
          ELSE IF f = "read" THEN fs' = fs /\ Finish(p, "ReadError")
          ELSE IF data.k # "rec" THEN fs' = fs /\ Finish(p, "ParseError")
          ELSE CASE f = "marshal" -> fs' = fs /\ Finish(p, "MarshalError")
                 [] f = "write" -> fs' = fs /\ Finish(p, "IOError")
                 [] f = "writepart" ->
                      fs' = WriteFile(fs, path, Truncated) /\ Finish(p, "IOError")
                 [] OTHER ->
                      /\ fs' = WriteFile(fs, path, [data EXCEPT !.status = StatusOf(me.op)])
                      /\ Finish(p, "ok")
    /\ UNCHANGED <<mu, ex, px, ar>>

(***************************************************************************)
(* List (400-444) and Search (447-484).                                    *)
(***************************************************************************)
ListFaults == {"none", "readdir", "readfile"}

List(p) ==
    LET me == proc[p] IN
    /\ me.pc = "body" /\ me.op = "List"
    /\ IF CtxErr(me) THEN Finish(p, "Cancelled")
       ELSE \E f \in ListFaults :
              LET r == ListResult(fs, f)
              IN  Set(p, [me EXCEPT !.out = r.out, !.pc = "ret",
                                    !.res = IF r.err = "nil" THEN "ok" ELSE r.err])
    /\ UNCHANGED <<fs, mu, ex, px, ar>>

\* the context check and m.store.Search
SearchStore(p) ==
    LET me == proc[p] IN
    /\ me.pc = "body" /\ me.op = "Search"
    /\ IF CtxErr(me) THEN Finish(p, "Cancelled")
       ELSE \/ Set(p, [me EXCEPT !.res = "SearchError", !.called = TRUE, !.pc = "ret"])
            \/ \E A \in SearchResults :
                  Set(p, [me EXCEPT !.avail = A, !.called = TRUE, !.pc = "s_rlock"])
    /\ UNCHANGED <<fs, mu, ex, px, ar>>

\* m.List(ctx) takes the read lock again
SearchRLock(p) ==
    /\ proc[p].pc = "s_rlock"
    /\ CanRLock(mu)
    /\ mu' = [mu EXCEPT !.readers = @ + 1]
    /\ Set(p, [proc[p] EXCEPT !.pc = "s_list"])
    /\ UNCHANGED <<fs, ex, px, ar>>

\* an entry of the catalog annotated with the local state (467-481)
Annotated(e, listed) ==
    LET hit == { l \in listed : l.rec.name = e.name }
    IN  IF hit = {} THEN [name |-> e.name, status |-> "available", installed |-> 0]
        ELSE [name |-> e.name, status |-> "installed",
              installed |-> (CHOOSE l \in hit : TRUE).rec.version]

\* the body of m.List, its RUnlock, and the annotation loop; writing into
\* the nil Metadata map of an entry panics
SearchList(p) ==
    LET me == proc[p] IN
    /\ me.pc = "s_list"
    /\ mu' = [mu EXCEPT !.readers = @ - 1]
    /\ IF CtxErr(me) THEN Finish(p, "Cancelled")
       ELSE \E f \in ListFaults :
              LET r == ListResult(fs, f)
              IN  IF r.err # "nil" THEN Finish(p, r.err)
                  ELSE IF \E e \in me.avail :
                            ~e.meta /\ \E l \in r.out : l.rec.name = e.name
                  THEN Finish(p, "panic")
                  ELSE Set(p, [me EXCEPT !.out = { Annotated(e, r.out) : e \in me.avail },
                                         !.res = "ok", !.pc = "ret"])
    /\ UNCHANGED <<fs, ex, px, ar>>

(***************************************************************************)
(* Upgrade (486-565).                                                      *)
(***************************************************************************)
\* the checks before anything is staged; the cleanup of the temporary
\* directory is deferred only after them
UpgradeCheck(p) ==
    LET me == proc[p]
        dir == PluginDir(me.name)
        data == ReadFile(fs, MetadataPath(dir))
    IN
    /\ me.pc = "body" /\ me.op = "Upgrade"
    /\ IF CtxErr(me) THEN Finish(p, "Cancelled")
       ELSE IF ~Exists(fs, dir) THEN Finish(p, "NotInstalled")
       ELSE \E f \in {"none", "read"} :
          IF data = NoData \/ f = "read" THEN Finish(p, "ReadError")
          ELSE IF data.k # "rec" THEN Finish(p, "ParseError")
          ELSE IF data.version = me.version THEN Finish(p, "AlreadyAtVersion")
          ELSE Set(p, [me EXCEPT !.cur = data, !.pc = "u_mkdir", !.past = TRUE])
    /\ UNCHANGED <<fs, mu, ex, px, ar>>

\* os.MkdirAll(tmpDir)
UpgradeMkdir(p) ==
    LET me == proc[p] IN
    /\ me.pc = "u_mkdir"
    /\ \E ok \in BOOLEAN :
          IF ok
          THEN /\ fs' = MkdirAll(fs, TmpDir(me.name))
               /\ Set(p, [me EXCEPT !.pc = "u_fetch", !.late = @ \/ me.cancelled])
          ELSE /\ fs' = fs
               /\ Set(p, [me EXCEPT !.res = "IOError", !.pc = "u_cleanup"])
    /\ UNCHANGED <<mu, ex, px, ar>>

\* m.store.Fetch(ctx, name, version)
UpgradeFetch(p) ==
    LET me == proc[p] IN
    /\ me.pc = "u_fetch"
    /\ \/ Set(p, [me EXCEPT !.res = "FetchError", !.called = TRUE, !.pc = "u_cleanup"])
       \/ \E i \in StoreInfos(me.name, me.version) :
             Set(p, [me EXCEPT !.info = i, !.called = TRUE, !.pc = "u_write"])
    /\ UNCHANGED <<fs, mu, ex, px, ar>>

\* writePluginFiles(ctx, tmpDir, newInfo)
UpgradeWrite(p) ==
    LET me == proc[p] IN
    /\ me.pc = "u_write"
    /\ \E env \in LifeEnvs(me.cancelled, me.info) :
          Wrote(p, writePluginFiles(fs, TmpDir(me.name), me.info, env),
                "u_meta", "u_cleanup")
    /\ UNCHANGED <<mu, ex, px, ar>>

\* the new record, with the status of the current one, written into tmpDir
UpgradeMeta(p) ==
    LET me == proc[p]
        path == MetadataPath(TmpDir(me.name))
    IN
    /\ me.pc = "u_meta"
    /\ \E f \in RecordFaults :
          CASE f = "none" ->
                 /\ fs' = WriteFile(fs, path,
                            Rec(me.info.name, me.version, me.cur.status,
                                {"installed", "upgraded_from", "previous_install"}))
                 /\ Set(p, [me EXCEPT !.pc = "u_backup", !.late = @ \/ me.cancelled])
            [] f = "marshal" ->
                 /\ fs' = fs
                 /\ Set(p, [me EXCEPT !.res = "MarshalError", !.pc = "u_cleanup"])
            [] f = "write" ->
                 /\ fs' = fs
                 /\ Set(p, [me EXCEPT !.res = "IOError", !.pc = "u_cleanup"])
            [] f = "writepart" ->
                 /\ fs' = WriteFile(fs, path, Truncated)
                 /\ Set(p, [me EXCEPT !.res = "IOError", !.pc = "u_cleanup",
                                      !.late = @ \/ me.cancelled])
    /\ UNCHANGED <<mu, ex, px, ar>>

\* the first rename: os.Rename(pluginDir, backupDir)
UpgradeBackup(p) ==
    LET me == proc[p]
        dir == PluginDir(me.name)
        bak == BackupDir(me.name)
    IN
    /\ me.pc = "u_backup"
    /\ \/ /\ RenameOK(fs, dir, bak)
          /\ fs' = Rename(fs, dir, bak)
          /\ Set(p, [me EXCEPT !.pc = "u_swap", !.late = @ \/ me.cancelled])
       \/ /\ fs' = fs
          /\ Set(p, [me EXCEPT !.res = "BackupError", !.pc = "u_cleanup"])
    /\ UNCHANGED <<mu, ex, px, ar>>

\* the second rename: os.Rename(tmpDir, pluginDir); when it fails the backup
\* is renamed back
UpgradeSwap(p) ==
    LET me == proc[p]
        dir == PluginDir(me.name)
        tmp == TmpDir(me.name)
        bak == BackupDir(me.name)
    IN
    /\ me.pc = "u_swap"
    /\ \/ /\ RenameOK(fs, tmp, dir)
          /\ fs' = Rename(fs, tmp, dir)
          /\ Set(p, [me EXCEPT !.pc = "u_drop", !.late = @ \/ me.cancelled])
       \/ /\ fs' = Restore(fs, bak, dir)
          /\ Set(p, [me EXCEPT !.res = "SwapError", !.pc = "u_cleanup"])
    /\ UNCHANGED <<mu, ex, px, ar>>

\* os.RemoveAll(backupDir)
UpgradeDropBackup(p) ==
    LET me == proc[p] IN
    /\ me.pc = "u_drop"
    /\ fs' = RemoveAll(fs, BackupDir(me.name))
    /\ Set(p, [me EXCEPT !.res = "ok", !.pc = "u_cleanup"])
    /\ UNCHANGED <<mu, ex, px, ar>>

\* the deferred os.RemoveAll(tmpDir)
UpgradeCleanup(p) ==
    LET me == proc[p] IN
    /\ me.pc = "u_cleanup"
    /\ fs' = RemoveAll(fs, TmpDir(me.name))
    /\ Set(p, [me EXCEPT !.pc = "ret"])
    /\ UNCHANGED <<mu, ex, px, ar>>

(***************************************************************************)
(* The Manager with its callers.                                           *)
(***************************************************************************)
\* one caller
Init ==
    /\ fs = {}
    /\ mu = MuFree
    /\ proc = [p \in {"p1"} |-> IdleProc]
    /\ ex = <<>> /\ px = <<>> /\ ar = <<>>

\* two callers share the Manager
InitConc ==
    /\ fs = {}
    /\ mu = MuFree
    /\ proc = [p \in Procs |-> IdleProc]
    /\ ex = <<>> /\ px = <<>> /\ ar = <<>>

Next ==
    \E p \in DOMAIN proc :
        \/ Call(p) \/ Lock(p) \/ LockEnter(p) \/ RLock(p) \/ Cancel(p) \/ Return(p)
        \/ InstallCheck(p) \/ InstallMkdir(p) \/ InstallFetch(p) \/ InstallWrite(p)
        \/ InstallMeta(p) \/ InstallCleanup(p)
        \/ Uninstall(p) \/ SetStatus(p)
        \/ List(p) \/ SearchStore(p) \/ SearchRLock(p) \/ SearchList(p)
        \/ UpgradeCheck(p) \/ UpgradeMkdir(p) \/ UpgradeFetch(p) \/ UpgradeWrite(p)
        \/ UpgradeMeta(p) \/ UpgradeBackup(p) \/ UpgradeSwap(p)
        \/ UpgradeDropBackup(p) \/ UpgradeCleanup(p)

Spec == Init /\ [][Next]_vars

SpecConc == InitConc /\ [][Next]_vars

(***************************************************************************)
(* Properties of the Manager.                                              *)
(***************************************************************************)
\* what the tree holds at and below the live directory of a plugin
Live(tree, name) == { n \in tree : Inside(n.path, PluginDir(name)) }

\* what the tree holds below the plugin root
BelowRoot(tree) == { n \in tree : Inside(n.path, RootDir) /\ n.path # RootDir }

\* the caller is inside the critical section of its operation
InCS(me) == me.pc \notin {"idle", "lock", "wait"}

C4_LockDiscipline ==
    \A p, q \in DOMAIN proc :
        (p # q /\ proc[p].op \in Writers /\ InCS(proc[p])) => ~InCS(proc[q])

\* two List/Search calls are inside their critical sections together
C4_Witness ==
    \E p, q \in DOMAIN proc :
        /\ p # q
        /\ proc[p].op \in Readers /\ InCS(proc[p])
        /\ proc[q].op \in Readers /\ InCS(proc[q])

\* C5: a List that has its result does not report a parse error, holds no
\* entry for a name whose Install is past its checks and has not returned,
\* and every entry it holds is a directory with that record in the tree
C5_NoHalfInstalled ==
    \A p \in DOMAIN proc :
        LET me == proc[p] IN
        (me.op = "List" /\ me.pc = "ret")
        => /\ me.res # "ParseError"
           /\ \A q \in DOMAIN proc :
                 (proc[q].op = "Install" /\ proc[q].past)
                 => \A l \in me.out : l.dir # PluginDir(proc[q].name)
           /\ \A l \in me.out : ReadFile(fs, MetadataPath(l.dir)) = l.rec

\* a List has returned an empty listing of an existing plugin root while an
\* Install waits for the lock
C5_Witness ==
    \E p, q \in DOMAIN proc :
        /\ proc[p].op = "List" /\ proc[p].pc = "ret" /\ proc[p].res = "ok"
        /\ proc[p].out = {} /\ Exists(fs, RootDir)
        /\ proc[q].op = "Install" /\ proc[q].pc = "wait"

C7_RestState ==
    (\A p \in DOMAIN proc : proc[p].pc = "idle")
    => /\ \A d \in SubDirs(fs) :
             /\ d \in { PluginDir(n) : n \in PluginNames }
             /\ ReadFile(fs, MetadataPath(d)).k = "rec"
             /\ ReadFile(fs, MetadataPath(d)).status \in {"enabled", "disabled"}
       /\ ListResult(fs, "none").err = "nil"
       /\ Cardinality(ListResult(fs, "none").out) = Cardinality(SubDirs(fs))

\* C8: an operation called with a cancelled context does not call the
\* catalog, leaves the tree as it was, and returns Cancelled
C8_CancelledAtCall ==
    \A p \in DOMAIN proc :
        LET me == proc[p] IN
        (me.atCall /\ InCS(me))
        => /\ fs = me.pre
           /\ ~me.called
           /\ me.pc \in {"body", "ret"}
           /\ (me.pc = "ret" => me.res = "Cancelled")

\* an Uninstall of an installed plugin called with a cancelled context returns
C8_Witness ==
    \E p \in DOMAIN proc :
        /\ proc[p].atCall /\ proc[p].pc = "ret" /\ proc[p].op = "Uninstall"
        /\ ReadFile(fs, MetadataPath(PluginDir(proc[p].name))).k = "rec"

\* C9: an Install or Upgrade whose context is cancelled after the opening
\* checks changes the tree no more, except to clean up, and does not return
\* success
C9_CancelInFlight ==
    \A p \in DOMAIN proc :
        LET me == proc[p] IN
        (/\ me.op \in {"Install", "Upgrade"} /\ me.pc = "ret"
         /\ me.past /\ me.cancelled)
        => (~me.late /\ me.res # "ok")

(***************************************************************************)
(* The asset resolver: FindAsset and Filter (src/unnamed/part_000).        *)
(* Asset names are strings, i.e. sequences of characters.                  *)
(***************************************************************************)
\* strings.HasSuffix(s, suffix)
HasSuffix(s, suffix) ==
    /\ Len(s) >= Len(suffix)
    /\ SubSeq(s, Len(s) - Len(suffix) + 1, Len(s)) = suffix

\* strings.Contains(s, sub)
Contains(s, sub) ==
    \E i \in 1..(Len(s) - Len(sub) + 1) : SubSeq(s, i, i + Len(sub) - 1) = sub

\* filepath.Match(pattern, name) for patterns made of literal characters,
\* "*" (any run of non-separator characters) and "?" (one non-separator
\* character)
RECURSIVE Match(_, _)
Match(pattern, name) ==
    IF pattern = <<>> THEN name = <<>>
    ELSE IF Head(pattern) = "*"
    THEN \E k \in 0..Len(name) :
            /\ \A i \in 1..k : name[i] # Sep
            /\ Match(Tail(pattern), SubSeq(name, k + 1, Len(name)))
    ELSE /\ name # <<>>
         /\ \/ Head(pattern) = "?" /\ Head(name) # Sep
            \/ Head(pattern) = Head(name)
         /\ Match(Tail(pattern), Tail(name))

Dash == <<"-">>
NoExt == <<>>
ExeExt == <<".", "e", "x", "e">>
ZipExt == <<".", "z", "i", "p">>
TarGzExt == <<".", "t", "a", "r", ".", "g", "z">>
TgzExt == <<".", "t", "g", "z">>
WasmExt == <<".", "w", "a", "s", "m">>
Sha256Ext == <<".", "s", "h", "a", "2", "5", "6">>
AscExt == <<".", "a", "s", "c">>
SigExt == <<".", "s", "i", "g">>

\* a filter that lets every asset through
AnyAsset(name, asset) == TRUE

\* the asset passes the filter of FindAsset (28-33)
ValidAsset(name, asset) ==
    /\ HasPrefix(asset, name)
    /\ ~HasSuffix(asset, Sha256Ext)
    /\ ~HasSuffix(asset, AscExt)
    /\ ~HasSuffix(asset, SigExt)

\* the patterns of FindAsset, least specific first
PatternsReversed(name, version, goos, arch) ==
    << name,
       name \o Dash \o version,
       name \o Dash \o version \o Dash \o goos \o Dash \o arch >>

\* the patterns of FindAsset in the order they are tried (45-52)
Patterns(name, version, goos, arch) ==
    << name \o Dash \o version \o Dash \o goos \o Dash \o arch,
       name \o Dash \o version,
       name >>

\* the extensions of FindAsset in the order they are tried (55)
Extensions == <<NoExt, ExeExt, ZipExt, TarGzExt, TgzExt, WasmExt>>

\* every asset is taken for an executable
AlwaysExec(ext) == "exec"

\* the runtime of a match with extension ext (62-65)
RuntimeOf(ext) == IF Contains(ext, <<"w", "a", "s", "m">>) THEN "wasm" ELSE "exec"

AssetResult(asset, runtime, err) == [asset |-> asset, runtime |-> runtime, err |-> err]

\* the three loops of FindAsset (56-73) from pattern i, extension j and
\* candidate k on
RECURSIVE FindFrom(_, _, _, _, _)
FindFrom(patterns, valid, i, j, k) ==
    IF i > Len(patterns) THEN AssetResult(<<>>, "", "NoMatch")
    ELSE IF j > Len(Extensions) THEN FindFrom(patterns, valid, i + 1, 1, 1)
    ELSE IF k > Len(valid) THEN FindFrom(patterns, valid, i, j + 1, 1)
    ELSE IF Match(patterns[i] \o Extensions[j], valid[k])
    THEN AssetResult(valid[k], RuntimeOf(Extensions[j]), "nil")
    ELSE FindFrom(patterns, valid, i, j, k + 1)

\* FindAsset once the candidates are filtered (40-73)
FindAmong(patterns, valid) ==
    IF Len(valid) = 0 THEN AssetResult(<<>>, "", "NoCandidates")
    ELSE FindFrom(patterns, valid, 1, 1, 1)

\* FindAsset(prefix, name, version, goos, arch, getAssets) with assets the
\* list getAssets() returns
FindAsset(prefix, name, version, goos, arch, assets) ==
    FindAmong(Patterns(name, version, goos, arch),
              SelectSeq(assets, LAMBDA a : ValidAsset(name, a)))


Linux == <<"l", "i", "n", "u", "x">>
Windows == <<"w", "i", "n", "d", "o", "w", "s">>
MacOS == <<"m", "a", "c", "o", "s">>
Amd64 == <<"a", "m", "d", "6", "4">>
I386 == <<"3", "8", "6">>
Arm == <<"a", "r", "m">>
Arm64 == <<"a", "r", "m", "6", "4">>

\* the platforms of Filter (79-85)
Oses == {Linux, Windows, MacOS}
Arches == {Amd64, I386, Arm, Arm64}

\* the extensions of Filter (87-91)
FilterExtensions ==
    {NoExt, ExeExt} \cup {ZipExt, TarGzExt, TgzExt}
        \cup {WasmExt, WasmExt \o ZipExt, WasmExt \o TarGzExt, WasmExt \o TgzExt}

\* the version as it stands in a pattern, without the "v"
Bare(version) == version

\* the version as it stands in a pattern of Filter: "v%s" (96, 102)
VersionTag(version) == <<"v">> \o version

\* the patterns of Filter (94-104)
FilterPatterns(prefix, name, version) ==
    { prefix \o Dash \o name,
      prefix \o Dash \o name \o Dash \o VersionTag(version) }
        \cup { prefix \o Dash \o name \o Dash \o VersionTag(version) \o Dash \o os \o Dash \o arch :
                 os \in Oses, arch \in Arches }

\* the set validAssets of Filter (107-115)
FilterValid(patterns) == { p \o e : p \in patterns, e \in FilterExtensions }

FilterBy(valid, assets) == SelectSeq(assets, LAMBDA a : a \in valid)

\* Filter(prefix, name, version, getAssetNames) with assets the list
\* getAssetNames() returns
Filter(prefix, name, version, assets) ==
    FilterBy(FilterValid(FilterPatterns(prefix, name, version)), assets)

(***************************************************************************)
(* One call of FindAsset or Filter.  The asset lists tried are the lists   *)
(* of at most MaxAssets names of a release of tool "t", and the two lists  *)
(* of the documented examples.                                             *)
(***************************************************************************)
MaxAssets == 2

ToolT == <<"t">>
PrefixP == <<"p">>
V1 == <<"1">>
VAny == <<"*">>

Tool == <<"t", "o", "o", "l">>
V100 == <<"1", ".", "0", ".", "0">>

AssetVersions == {V1, VAny}

\* asset names of a release, for FindAsset
FindPool ==
    { ToolT \o Dash \o V1 \o Dash \o Linux \o Dash \o Amd64 \o TgzExt,
      ToolT \o Dash \o V1 \o ZipExt,
      ToolT \o Dash \o V1 \o ExeExt,
      ToolT \o Dash \o <<"2">>,
      ToolT,
      ToolT \o WasmExt,
      ToolT \o Dash \o V1 \o WasmExt,
      ToolT \o SigExt,
      <<"u">> }

\* asset names of a release, for Filter
FilterPool ==
    { PrefixP \o Dash \o ToolT,
      PrefixP \o Dash \o ToolT \o Dash \o <<"v">> \o V1 \o ZipExt,
      PrefixP \o Dash \o ToolT \o Dash \o <<"v">> \o V1 \o Dash \o Linux \o Dash \o Amd64 \o WasmExt \o TgzExt,
      PrefixP \o Dash \o ToolT \o Dash \o <<"v">> \o V1 \o Dash \o MacOS \o Dash \o Arm,
      PrefixP \o Dash \o ToolT \o Dash \o V1,
      PrefixP \o Dash \o ToolT \o Sha256Ext,
      ToolT }

\* the lists of at most n elements of S
SeqsUpTo(S, n) == UNION { [1..m -> S] : m \in 0..n }

ExampleAssets ==
    << Tool \o Dash \o V100 \o Dash \o Linux \o Dash \o Amd64 \o TarGzExt,
       Tool \o Dash \o V100 \o ZipExt,
       Tool >>

ExampleWasm == << Tool \o WasmExt >>

Query(fn, prefix, name, version, assets) ==
    [fn |-> fn, prefix |-> prefix, name |-> name, version |-> version,
     goos |-> Linux, arch |-> Amd64, assets |-> assets]

AssetQueries ==
    { Query("FindAsset", PrefixP, ToolT, v, a) :
        v \in AssetVersions, a \in SeqsUpTo(FindPool, MaxAssets) }
        \cup { Query("FindAsset", PrefixP, Tool, V100, a) : a \in {ExampleAssets, ExampleWasm} }
        \cup { Query("Filter", PrefixP, ToolT, v, a) :
                 v \in AssetVersions, a \in SeqsUpTo(FilterPool, MaxAssets) }

ArIdle == [st |-> "idle"]

\* a caller asks the resolver
AssetCall ==
    /\ ar.st = "idle"
    /\ \E q \in AssetQueries : ar' = [st |-> "called", q |-> q]
    /\ UNCHANGED <<fs, mu, proc, ex, px>>

FindAssetRun ==
    /\ ar.st = "called" /\ ar.q.fn = "FindAsset"
    /\ ar' = [st |-> "done", q |-> ar.q,
              res |-> FindAsset(ar.q.prefix, ar.q.name, ar.q.version,
                                ar.q.goos, ar.q.arch, ar.q.assets)]
    /\ UNCHANGED <<fs, mu, proc, ex, px>>

FilterRun ==
    /\ ar.st = "called" /\ ar.q.fn = "Filter"
    /\ ar' = [st |-> "done", q |-> ar.q,
              res |-> Filter(ar.q.prefix, ar.q.name, ar.q.version, ar.q.assets)]
    /\ UNCHANGED <<fs, mu, proc, ex, px>>

InitAsset ==
    /\ ar = ArIdle
    /\ fs = <<>> /\ mu = <<>> /\ proc = <<>> /\ ex = <<>> /\ px = <<>>

NextAsset == AssetCall \/ FindAssetRun \/ FilterRun

SpecAsset == InitAsset /\ [][NextAsset]_vars

(***************************************************************************)
(* Properties of the asset resolver.                                       *)
(***************************************************************************)
\* the documented filter: starts with the name, no checksum or signature
DocFilter(name, a) ==
    /\ HasPrefix(a, name)
    /\ ~HasSuffix(a, <<".", "s", "h", "a", "2", "5", "6">>)
    /\ ~HasSuffix(a, <<".", "a", "s", "c">>)
    /\ ~HasSuffix(a, <<".", "s", "i", "g">>)

DocCandidates(q) == SelectSeq(q.assets, LAMBDA a : DocFilter(q.name, a))

\* the documented patterns, most specific first
DocPatterns(q) ==
    << q.name \o <<"-">> \o q.version \o <<"-">> \o q.goos \o <<"-">> \o q.arch,
       q.name \o <<"-">> \o q.version,
       q.name >>

\* the documented extensions, in their order
DocExtensions == << <<>>, <<".", "e", "x", "e">>, <<".", "z", "i", "p">>, <<".", "t", "a", "r", ".", "g", "z">>, <<".", "t", "g", "z">>, <<".", "w", "a", "s", "m">> >>

\* the (pattern, extension, candidate) triples that match
MatchTriples(pats, exts, cand) ==
    { t \in (1..Len(pats)) \X (1..Len(exts)) \X (1..Len(cand)) :
        Match(pats[t[1]] \o exts[t[2]], cand[t[3]]) }

TripleBefore(s, t) ==
    \/ s[1] < t[1]
    \/ s[1] = t[1] /\ s[2] < t[2]
    \/ s[1] = t[1] /\ s[2] = t[2] /\ s[3] <= t[3]

FirstTriple(T) == CHOOSE t \in T : \A s \in T : TripleBefore(t, s)

FoundDone == ar.st = "done" /\ ar.q.fn = "FindAsset"

ReturnsFirst(res, cand, T) ==
    /\ T # {} => res.err = "nil" /\ res.asset = cand[FirstTriple(T)[3]]
    /\ res.err = "nil" => T # {} /\ DocFilter(ar.q.name, res.asset)

\* C11: FindAsset returns the candidate of the first matching triple in the
\* order patterns (name-version-os-arch, name-version, name) > extensions
\* ("", .exe, .zip, .tar.gz, .tgz, .wasm) > input order of the candidates
\* that pass the filter; the returned name passes the filter; and the
\* documented example returns "tool-1.0.0-linux-amd64.tar.gz".
C11_SelectionOrder ==
    FoundDone =>
        /\ ReturnsFirst(ar.res, DocCandidates(ar.q),
                        MatchTriples(DocPatterns(ar.q), DocExtensions, DocCandidates(ar.q)))
        /\ (ar.q.assets = ExampleAssets /\ ar.q.name = Tool)
              => ar.res.asset = <<"t", "o", "o", "l", "-", "1", ".", "0", ".", "0", "-", "l", "i", "n", "u", "x", "-", "a", "m", "d", "6", "4", ".", "t", "a", "r", ".", "g", "z">> /\ ar.res.runtime = "exec"

\* the most specific asset is returned although a less specific one that
\* also matches stands before it in the list
C11_Witness ==
    /\ FoundDone
    /\ ar.q.version = V1
    /\ ar.q.assets = << ToolT, ToolT \o Dash \o V1 \o Dash \o Linux \o Dash \o Amd64 \o TgzExt >>
    /\ ar.res.asset = ar.q.assets[2]

RuntimeByExt(res, T) ==
    T # {} => res.runtime = IF DocExtensions[FirstTriple(T)[2]] = <<".", "w", "a", "s", "m">> THEN "wasm" ELSE "exec"

\* C12: a successful FindAsset reports the runtime "wasm" exactly when the
\* extension of the matching (pattern, extension) pair contains "wasm" (of
\* the six extensions only .wasm does), and "exec" otherwise; with the
\* single asset "tool.wasm" it returns ("tool.wasm", "wasm").
C12_RuntimeKind ==
    FoundDone =>
        /\ ar.res.err = "nil" => ar.res.runtime \in {"wasm", "exec"}
        /\ RuntimeByExt(ar.res, MatchTriples(DocPatterns(ar.q), DocExtensions, DocCandidates(ar.q)))
        /\ ar.q.assets = ExampleWasm
              => ar.res.asset = <<"t", "o", "o", "l", ".", "w", "a", "s", "m">> /\ ar.res.runtime = "wasm"

\* a wasm runtime is reported for an asset matched with the extension .wasm
C12_Witness ==
    /\ FoundDone
    /\ ar.q.version = V1
    /\ ar.q.assets = << ToolT \o Dash \o V1 \o WasmExt >>
    /\ ar.res.runtime = "wasm"

FailureKind(res, cand, T) ==
    /\ Len(cand) = 0 => res.err = "NoCandidates"
    /\ (Len(cand) > 0 /\ T = {}) => res.err = "NoMatch"
    /\ res.err \in {"nil", "NoCandidates", "NoMatch"}
    /\ res.err # "nil" => res.asset = <<>> /\ res.runtime = ""

\* C13: FindAsset fails with NoCandidates when no asset passes the filter
\* (the empty list included), with NoMatch when some asset passes the filter
\* and none matches a pattern+extension, and in both cases returns an empty
\* asset name and an empty runtime kind.
C13_FailureKinds ==
    FoundDone =>
        FailureKind(ar.res, DocCandidates(ar.q),
                    MatchTriples(DocPatterns(ar.q), DocExtensions, DocCandidates(ar.q)))

\* a list of a signature and a foreign asset leaves no candidate
C13_Witness ==
    /\ FoundDone
    /\ ar.q.assets = << ToolT \o SigExt, <<"u">> >>
    /\ ar.res.err = "NoCandidates"

\* a candidate that matches no pattern
C13_WitnessNoMatch ==
    /\ FoundDone
    /\ ar.q.version = V1
    /\ ar.q.assets = << ToolT \o Dash \o <<"2">> >>
    /\ ar.res.err = "NoMatch"

\* the documented names Filter accepts
DocFilterNames(q) ==
    LET base == q.prefix \o <<"-">> \o q.name
        tagged == base \o <<"-", "v">> \o q.version
        pats == {base, tagged}
                   \cup { tagged \o <<"-">> \o os \o <<"-">> \o arch :
                            os \in {<<"l", "i", "n", "u", "x">>, <<"w", "i", "n", "d", "o", "w", "s">>, <<"m", "a", "c", "o", "s">>},
                            arch \in {<<"a", "m", "d", "6", "4">>, <<"3", "8", "6">>, <<"a", "r", "m">>, <<"a", "r", "m", "6", "4">>} }
        exts == { <<>>, <<".", "e", "x", "e">>, <<".", "z", "i", "p">>, <<".", "t", "a", "r", ".", "g", "z">>, <<".", "t", "g", "z">>, <<".", "w", "a", "s", "m">>,
                  <<".", "w", "a", "s", "m", ".", "z", "i", "p">>, <<".", "w", "a", "s", "m", ".", "t", "a", "r", ".", "g", "z">>, <<".", "w", "a", "s", "m", ".", "t", "g", "z">> }
    IN  { p \o e : p \in pats, e \in exts }

KeptInOrder(res, assets, names) == res = SelectSeq(assets, LAMBDA a : a \in names)

\* C14: Filter returns exactly the elements of assets that equal
\* pattern+extension for a documented pattern and extension, in the input
\* order, and the empty list when nothing matches; it has no error result.
C14_FilterResult ==
    (ar.st = "done" /\ ar.q.fn = "Filter") =>
        /\ KeptInOrder(ar.res, ar.q.assets, DocFilterNames(ar.q))
        /\ (\A i \in 1..Len(ar.q.assets) : ar.q.assets[i] \notin DocFilterNames(ar.q))
              => ar.res = <<>>

\* one of two assets is kept
C14_Witness ==
    /\ ar.st = "done" /\ ar.q.fn = "Filter"
    /\ ar.q.version = V1
    /\ ar.q.assets = << PrefixP \o Dash \o ToolT \o Dash \o V1,
                        PrefixP \o Dash \o ToolT \o Dash \o <<"v">> \o V1 \o ZipExt >>
    /\ ar.res = << ar.q.assets[2] >>

(***************************************************************************)
(* List on a plugin root in any state: absent, empty, or holding a file    *)
(* and the directories "a" and "b", each of them without a record, with a  *)
(* record, with a cut-off record or with a file that is no record.         *)
(***************************************************************************)
DirStates == {"absent", "bare", "rec", "truncated", "raw"}

\* the nodes of <root>/<name> in state st
DirIn(name, st) ==
    IF st = "absent" THEN {}
    ELSE IF st = "bare" THEN {DirNode(PluginDir(name))}
    ELSE {DirNode(PluginDir(name)),
          FileNode(MetadataPath(PluginDir(name)),
                   IF st = "rec" THEN Rec(name, 1, "enabled", {"installed"})
                   ELSE IF st = "truncated" THEN Truncated
                   ELSE Raw(<<1>>))}

StrayFile == FileNode(Join(RootDir, <<"f">>), Raw(<<1>>))

ListTrees ==
    {{}} \cup { {DirNode(RootDir)} \cup DirIn(<<"a">>, sa) \cup DirIn(<<"b">>, sb) \cup stray :
                  sa \in DirStates, sb \in DirStates, stray \in {{}, {StrayFile}} }

InitList ==
    /\ fs \in ListTrees
    /\ mu = MuFree
    /\ proc = [p \in {"p1"} |-> IdleProc]
    /\ ex = <<>> /\ px = <<>> /\ ar = <<>>

ListCall(p) == Call(p) /\ proc'[p].op = "List"

NextList ==
    \E p \in DOMAIN proc :
        ListCall(p) \/ RLock(p) \/ Cancel(p) \/ List(p) \/ Return(p)

SpecList == InitList /\ [][NextList]_vars

\* the directories directly below the root
RootSubDirs == { n.path : n \in { m \in fs : m.dir /\ Len(m.path) > Len(RootDir)
                                             /\ DirOf(m.path) = RootDir } }

\* the file <d>/metadata.json, if there is one
RecordFiles(d) == { n \in fs : ~n.dir /\ n.path = d \o <<Sep>> \o MetadataName }

Malformed == \E d \in RootSubDirs : \E n \in RecordFiles(d) : n.data.k # "rec"

ListedRecords ==
    UNION { { [dir |-> d, rec |-> n.data] : n \in RecordFiles(d) } : d \in RootSubDirs }

ListReturned(me) == me.op = "List" /\ me.pc = "ret"

\* C15: List returns the empty list without error when the root does not
\* exist or holds nothing; a subdirectory without a record and an entry that
\* is no directory are left out without an error; a record that is present
\* and malformed fails the whole call, which then returns no entry.  (A
\* cancelled context and a failing read are the only other failures.)
C15_ListTolerance ==
    \A p \in DOMAIN proc :
        ListReturned(proc[p]) =>
            /\ proc[p].res \in {"ok", "Cancelled", "IOError", "ParseError"}
            /\ ~(\E n \in fs : n.path = RootDir)
                  => proc[p].res \in {"ok", "Cancelled"} /\ proc[p].out = {}
            /\ fs = {DirNode(RootDir)}
                  => proc[p].res # "ParseError" /\ proc[p].out = {}
            /\ proc[p].res = "ok" => proc[p].out = ListedRecords
            /\ ~Malformed => proc[p].res # "ParseError"
            /\ Malformed => proc[p].res # "ok"
            /\ proc[p].res # "ok" => proc[p].out = {}

\* List succeeds with one entry on a root that holds a file, a directory
\* without a record and a directory with one
C15_Witness ==
    \E p \in DOMAIN proc :
        /\ ListReturned(proc[p])
        /\ fs = {DirNode(RootDir), StrayFile} \cup DirIn(<<"a">>, "bare") \cup DirIn(<<"b">>, "rec")
        /\ proc[p].res = "ok"
        /\ Cardinality(proc[p].out) = 1

(***************************************************************************)
(* Properties of the operations on one plugin, stated on the tree the      *)
(* caller found when it got the lock (pre) and the tree at its return.     *)
(***************************************************************************)
DirPath(name) == RootDir \o <<Sep>> \o name

HasDir(tree, name) == \E n \in tree : n.path = DirPath(name)

\* the files <root>/<name>/metadata.json of the tree
RecFiles(tree, name) ==
    { n \in tree : ~n.dir /\ n.path = DirPath(name) \o <<Sep>> \o MetadataName }

\* the well-formed records of name in the tree
Records(tree, name) == { n.data : n \in { m \in RecFiles(tree, name) : m.data.k = "rec" } }

\* the directory of name and all it holds
Below(tree, name) ==
    { n \in tree : n.path = DirPath(name) \/ HasPrefix(n.path, DirPath(name) \o <<Sep>>) }

Returned(me, ops) == me.op \in ops /\ me.pc = "ret"

\* C16: Upgrade fails with NotInstalled when the plugin directory is absent
\* and with AlreadyAtVersion when the record's version is the target
\* version (a failing read of the record aside); in both cases the catalog
\* was not called, nothing was staged and the tree is as it was.
C16_UpgradePreconditions ==
    \A p \in DOMAIN proc :
        LET me == proc[p] IN
        Returned(me, {"Upgrade"}) =>
            /\ (~HasDir(me.pre, me.name) /\ ~me.cancelled) => me.res = "NotInstalled"
            /\ me.res = "NotInstalled" => ~HasDir(me.pre, me.name)
            /\ ((\E r \in Records(me.pre, me.name) : r.version = me.version) /\ ~me.cancelled)
                  => me.res \in {"AlreadyAtVersion", "ReadError"}
            /\ me.res = "AlreadyAtVersion"
                  => \E r \in Records(me.pre, me.name) : r.version = me.version
            /\ me.res \in {"NotInstalled", "AlreadyAtVersion"}
                  => ~me.called /\ ~me.past /\ fs = me.pre

\* Upgrade to the installed version has been refused
C16_Witness ==
    \E p \in DOMAIN proc :
        /\ Returned(proc[p], {"Upgrade"})
        /\ proc[p].res = "AlreadyAtVersion"
        /\ Records(fs, proc[p].name) # {}

\* C17: Install of a name whose directory exists fails with
\* AlreadyInstalled, calls no Fetch and leaves the directory, its content
\* and its record as they were.
C17_InstallPrecondition ==
    \A p \in DOMAIN proc :
        LET me == proc[p] IN
        Returned(me, {"Install"}) =>
            /\ (HasDir(me.pre, me.name) /\ ~me.cancelled) => me.res = "AlreadyInstalled"
            /\ me.res = "AlreadyInstalled"
                  => /\ HasDir(me.pre, me.name)
                     /\ ~me.called /\ ~me.past
                     /\ Below(fs, me.name) = Below(me.pre, me.name)
                     /\ fs = me.pre

\* Install over an install with its record has been refused
C17_Witness ==
    \E p \in DOMAIN proc :
        /\ Returned(proc[p], {"Install"})
        /\ proc[p].res = "AlreadyInstalled"
        /\ Records(fs, proc[p].name) # {}
        /\ Cardinality(Below(fs, proc[p].name)) > 2

\* C18: Uninstall fails with NotInstalled and changes nothing when the
\* directory is absent; when it succeeds the directory and all below it are
\* gone and nothing else has changed; and with the directory gone List has
\* no entry for the name, Enable, Disable and Upgrade of it fail, and
\* Install of it is not refused as AlreadyInstalled.
C18_Uninstall ==
    \A p \in DOMAIN proc :
        LET me == proc[p] IN
        /\ Returned(me, {"Uninstall"}) =>
              /\ (~HasDir(me.pre, me.name) /\ ~me.cancelled) => me.res = "NotInstalled"
              /\ me.res = "NotInstalled" => ~HasDir(me.pre, me.name) /\ fs = me.pre
              /\ me.res = "ok" => /\ HasDir(me.pre, me.name)
                                  /\ fs = me.pre \ Below(me.pre, me.name)
        /\ \A nm \in PluginNames :
              Below(me.pre, nm) = {} =>
                 /\ Returned(me, {"List"}) => \A o \in me.out : o.rec.name # nm
                 /\ (Returned(me, {"Enable", "Disable", "Upgrade"}) /\ me.name = nm)
                       => me.res # "ok"
                 /\ (Returned(me, {"Install"}) /\ me.name = nm)
                       => me.res # "AlreadyInstalled"

\* Uninstall has removed an install
C18_Witness ==
    \E p \in DOMAIN proc :
        /\ Returned(proc[p], {"Uninstall"})
        /\ proc[p].res = "ok"
        /\ Records(proc[p].pre, proc[p].name) # {}
        /\ Below(fs, proc[p].name) = {}

\* Uninstall has removed a directory that held no record
C18_WitnessNoRecord ==
    \E p \in DOMAIN proc :
        /\ Returned(proc[p], {"Uninstall"})
        /\ proc[p].res = "ok"
        /\ RecFiles(proc[p].pre, proc[p].name) = {}

\* the tree with the status of the record of name set
WithStatus(tree, name, status) ==
    { IF n \in RecFiles(tree, name)
      THEN [n EXCEPT !.data = [name |-> n.data.name, version |-> n.data.version,
                               meta |-> n.data.meta, k |-> "rec", status |-> status]]
      ELSE n : n \in tree }

C20_SearchAnnotation ==
    \A p \in DOMAIN proc :
        LET me == proc[p] IN
        Returned(me, {"Search"}) =>
            /\ me.res # "panic"
            /\ fs = me.pre
            /\ me.res = "ok" =>
                  /\ Cardinality(me.out) = Cardinality(me.avail)
                  /\ \A e \in me.avail :
                        \E o \in me.out :
                           /\ o.name = e.name
                           /\ IF Records(fs, e.name) = {}
                              THEN o.status = "available"
                              ELSE /\ o.status = "installed"
                                   /\ \E r \in Records(fs, e.name) : o.installed = r.version

\* the files below the directory of name other than the record
Payload(tree, name) == { n \in Below(tree, name) : ~n.dir } \ RecFiles(tree, name)

\* C21: a successful Install leaves <root>/<name> with the content and with
\* one record that has the status enabled, the install stamp and the
\* version passed to Install; once such a record is there List returns it,
\* and Enable, Disable, Upgrade and Uninstall of the name do not fail with
\* NotInstalled.
C21_InstallSuccess ==
    \A p \in DOMAIN proc :
        LET me == proc[p] IN
        /\ (Returned(me, {"Install"}) /\ me.res = "ok") =>
              /\ ~HasDir(me.pre, me.name)
              /\ HasDir(fs, me.name)
              /\ Records(fs, me.name) =
                    { [k |-> "rec", name |-> me.name, version |-> me.version,
                       status |-> "enabled", meta |-> {"installed"}] }
              /\ Cardinality(RecFiles(fs, me.name)) = 1
              /\ Payload(fs, me.name) # {}
              /\ me.info.content.k = "raw"
                    => \A n \in Payload(fs, me.name) : n.data = me.info.content
        /\ \A nm \in PluginNames :
              (Records(me.pre, nm) # {} /\ Records(me.pre, nm) = { n.data : n \in RecFiles(me.pre, nm) }) =>
                 /\ (Returned(me, {"List"}) /\ me.res = "ok")
                       => \E o \in me.out : o.rec \in Records(me.pre, nm)
                 /\ (Returned(me, {"Enable", "Disable", "Upgrade", "Uninstall"}) /\ me.name = nm)
                       => me.res # "NotInstalled"

\* Install has returned success
C21_Witness ==
    \E p \in DOMAIN proc :
        /\ Returned(proc[p], {"Install"})
        /\ proc[p].res = "ok"
        /\ proc[p].version = MaxVersion
        /\ \E r \in Records(fs, proc[p].name) : r.version = MaxVersion

ExDone == ex.st = "done"

\* the number of bytes the sniffing saw: all of a string or a byte slice up
\* to the buffer length, what the one Read returned of a stream
SniffedBytes ==
    LET all == IF ex.info.content.k = "raw" THEN Len(ex.info.content.bytes)
               ELSE SniffBufLen + 1
        buf == IF all < SniffBufLen THEN all ELSE SniffBufLen
    IN  IF ex.info.kind \in {"reader", "seeker"} /\ ex.env.sniffN < buf
        THEN ex.env.sniffN ELSE buf

\* the sniffed tag is a key of the stage table: of the contents tried,
\* net/http recognises gzip (by 3 bytes) and zip (by 4 bytes)
TagInTable ==
    \/ ex.info.content.k = "gzip" /\ SniffedBytes >= 3
    \/ ex.info.content.k = "zip" /\ SniffedBytes >= 4

\* the designated file of the plugin
BinFile == ExDir \o <<Sep>> \o ToolName \o <<Sep>> \o BinName

\* the tree with the plugin's directory and its designated file holding d
OnlyBin(d) ==
    { [path |-> ExDir, dir |-> TRUE, data |-> NoData],
      [path |-> <<Sep, "r">>, dir |-> TRUE, data |-> NoData],
      [path |-> ExDir \o <<Sep>> \o ToolName, dir |-> TRUE, data |-> NoData],
      [path |-> BinFile, dir |-> FALSE, data |-> d] }

\* C23: when the sniffed tag is no key of the stage table and no call
\* fails, the run succeeds and the designated file holds the content as it
\* was handed over, whole and unchanged, and nothing else was written; so
\* for a string, a byte slice and a stream, seekable or not.
C23_RawContent ==
    (ExDone /\ ex.info.kind # "other" /\ ~TagInTable /\ ex.env.fault \in {"none", "tmpfile"}) =>
        /\ ex.err = "nil"
        /\ ex.tree = OnlyBin(ex.info.content)

\* a string of two bytes has been written
C23_Witness ==
    /\ ExDone
    /\ ex.info.kind = "string"
    /\ ex.info.content = Raw(<<1, 2>>)
    /\ ex.err = "nil"
    /\ \E n \in ex.tree : n.path = BinFile /\ n.data = Raw(<<1, 2>>)

ExCalm == ex.env.fault = "none" /\ ex.env.efault = "none" /\ ex.env.cancelAt = 0

\* the file the one entry of an archive is unpacked to
EntryFile == ExDir \o <<Sep>> \o ToolName \o <<Sep>> \o EntryName

\* C24: compressed content whose payload is no tar archive (here: a file
\* that is not empty) is decompressed into the designated file, and the run
\* succeeds.
C24_UntarOptional ==
    (/\ ExDone /\ ExCalm
     /\ ex.info.kind \in {"string", "bytes"}
     /\ ex.info.content.k \in {"gzip", "xz", "bzip2", "lz4", "brotli"}
     /\ ex.info.content.inner.k = "raw"
     /\ ex.info.content.inner.bytes # <<>>)
    => /\ ex.err = "nil"
       /\ \E n \in ex.tree : n.path = BinFile /\ n.data = ex.info.content.inner

\* C26: when the last stage has unpacked the archive and signalled the end,
\* the run succeeds: the entries are there and nothing was copied into the
\* designated file.
C26_TerminalStops ==
    (/\ ExDone /\ ExCalm
     /\ ex.info.kind \in {"string", "bytes"}
     /\ \/ ex.info.content.k = "zip"
        \/ ex.info.content.k = "gzip" /\ ex.info.content.inner.k = "tar")
    => /\ ex.err = "nil"
       /\ \E n \in ex.tree : n.path = EntryFile /\ n.data = ex.orig
       /\ \A n \in ex.tree : n.path = BinFile => n.data = Raw(<<>>)

\* C29: the stage table is gzip -> [decompress, untar], zip -> [unzip],
\* xz, bzip2, lz4, brotli -> [decompress, untar]; the stages run from left
\* to right, each on the stream the one before returned (the entry of a
\* gzipped tar archive is unpacked); a stage that fails ends the run with
\* its failure, no later stage and no copy having run.
C29_StageOrder ==
    /\ fileProcessorMap("application/gzip") = <<"extractGz", "extractTar">>
    /\ fileProcessorMap("application/x-gzip") = <<"extractGz", "extractTar">>
    /\ fileProcessorMap("application/zip") = <<"extractZip">>
    /\ fileProcessorMap("application/x-xz") = <<"extractXz", "extractTar">>
    /\ fileProcessorMap("application/x-bzip2") = <<"extractBzip2", "extractTar">>
    /\ fileProcessorMap("application/x-lz4") = <<"extractLz4", "extractTar">>
    /\ fileProcessorMap("application/x-brotli") = <<"extractBrotli", "extractTar">>
    /\ (ExDone /\ ExCalm /\ ex.info.kind \in {"string", "bytes"} /\ ex.info.content.k = "gzip") =>
          /\ ex.info.content.inner.k = "tar"
                => \E n \in ex.tree : n.path = EntryFile /\ n.data = ex.orig
          /\ ex.info.content.inner.k = "corrupt"
                => ex.err = "BadHeader" /\ ex.tree = OnlyBin(Raw(<<>>))
          /\ (ex.info.content.inner.k = "raw" /\ ex.info.content.inner.bytes # <<>>)
                => ex.err = "TarHeader" /\ ex.tree = OnlyBin(Raw(<<>>))

\* the decompression has failed and the unpacking has not run
C29_Witness ==
    /\ ExDone /\ ExCalm
    /\ ex.info.kind = "bytes"
    /\ ex.info.content.k = "gzip" /\ ex.info.content.inner.k = "corrupt"
    /\ ex.err = "BadHeader"

\* the nodes at and below path
Under(tree, path) == { n \in tree : n.path = path \/ HasPrefix(n.path, path \o <<Sep>>) }

\* the nodes moved from below `from` to below `to`
Moved(nodes, from, to) ==
    { [n EXCEPT !.path = to \o SubSeq(n.path, Len(from) + 1, Len(n.path))] : n \in nodes }

StagingOf(name) == DirPath(name) \o <<".", "u", "p", "g", "r", "a", "d", "e">>
BackupOf(name) == DirPath(name) \o <<".", "b", "a", "c", "k", "u", "p">>

\* the staging directory holds the new content and the new record
Staged(me) ==
    /\ \E n \in Under(fs, StagingOf(me.name)) :
          /\ ~n.dir
          /\ n.path = StagingOf(me.name) \o <<Sep>> \o MetadataName
          /\ n.data.k = "rec" /\ n.data.version = me.version
    /\ \E n \in Under(fs, StagingOf(me.name)) :
          ~n.dir /\ n.path # StagingOf(me.name) \o <<Sep>> \o MetadataName

Blocked(me) ==
    \/ me.pc = "lock" /\ me.op \in Writers /\ mu.w # NoProc
    \/ me.pc = "lock" /\ me.op \in Readers /\ mu.w # NoProc
    \/ me.pc = "s_rlock" /\ mu.w # NoProc
    \/ me.pc = "wait" /\ mu.readers # 0

\* C25: there is no state in which calls are under way and every one of
\* them is blocked at a lock for good; in particular not a Search that
\* holds the shared lock and takes it again in List while a writer waits.
C25_NoDeadlock ==
    ~ /\ \E p \in DOMAIN proc : proc[p].pc # "idle"
      /\ \A p \in DOMAIN proc : proc[p].pc # "idle" => Blocked(proc[p])

(***************************************************************************)
(* The Manager with plugin "a" and a second plugin installed, whose name   *)
(* is "a.upgrade" or "a.backup"; the calls are made for "a".               *)
(***************************************************************************)
OtherNames == { <<"a">> \o UpgradeSuffix, <<"a">> \o BackupSuffix }

\* what Install(name, 1) of a raw executable leaves
Installed(name) ==
    { DirNode(PluginDir(name)),
      DirNode(Join(PluginDir(name), name)),
      FileNode(Join(Join(PluginDir(name), name), BinName), Raw(<<1>>)),
      FileNode(MetadataPath(PluginDir(name)), Rec(name, 1, "enabled", {"installed"})) }

InitPair ==
    /\ \E o \in OtherNames :
          fs = {DirNode(RootDir)} \cup Installed(<<"a">>) \cup Installed(o)
    /\ mu = MuFree
    /\ proc = [p \in {"p1"} |-> IdleProc]
    /\ ex = <<>> /\ px = <<>> /\ ar = <<>>

SpecPair == InitPair /\ [][Next]_vars

\* C30: a call made for plugin "a" returns with the directory, the content
\* and the record of the other plugin as it found them.
C30_Isolation ==
    \A p \in DOMAIN proc :
        proc[p].pc = "ret" =>
            \A o \in OtherNames :
                Under(fs, DirPath(o)) = Under(proc[p].pre, DirPath(o))

====
